---------------------------- MODULE Spec2Model ----------------------------
(***************************************************************************)
(* Model of the BankApp component (src/src/components/BankApp.tsx): the    *)
(* React state of the component, the two wagmi read queries, the three     *)
(* wagmi write mutations with the confirmation waits attached to them, and *)
(* the remote ledger (token allowance and bank balance) they talk to.      *)
(*                                                                         *)
(* One step of the model is one browser task: a user event or the arrival  *)
(* of a remote answer, together with the renders and effects it causes.    *)
(***************************************************************************)
EXTENDS Integers, Sequences, FiniteSets, TLC

(***************************************************************************)
(* Bounds.  Token amounts have 18 decimals and approvals ask for 2^256-1   *)
(* in the source; both are scaled down to stay inside TLC's integers.      *)
(***************************************************************************)
Decimals == 1
UintBits == 8
MaxAmt == 2
MaxInFlight == 2
MaxUserSteps == 4

Accounts == {"A", "B"}
NoAccount == "none"

Unit == 10 ^ Decimals
MaxUint256 == 2 ^ UintBits - 1

\* `undefined` of a query's data, and the empty string of a text state.
Undefined == << >>
EmptyStr == << >>
Some(v) == << v >>

\* What the <input type="number"> can hold: '' or a decimal numeral.
AmountInputs == {EmptyStr} \cup {Some(n) : n \in (0 - 1)..MaxAmt}

\* Tokens an account owns in total (wallet + bank), in base units.
Holdings == MaxAmt * Unit

VARIABLES
    address,      \* useAppKitAccount().address, NoAccount when disconnected
    amount,       \* useState('') amount
    balance,      \* useState('') balance (display string)
    isApproved,   \* useState(false)
    isLoading,    \* useState(false)
    progress,     \* useState(0)
    qBalance,     \* query cache of balances(account): bankBalance per account
    qAllowance,   \* query cache of allowance(account, bank) per account
    balFetch,     \* per account: "idle", "error", "fetch" or "getBalance"
    allowFetch,   \* per account: "idle", "error" (last read failed) or "fetch"
    txs,          \* write mutations in flight and their confirmation waits
    ledgerBal,    \* bank contract: balances[account]
    ledgerAllow,  \* token contract: allowance[account][bank]
    userSteps,    \* user actions taken so far (bounds the exploration)
    outcome,      \* the last terminal outcome of a write: <<op, how>>
    lastDeposit   \* << >>, or <<account, balance before, amount>> of the deposit
                  \* the ledger executed last, no other transfer since

vars == <<address, amount, balance, isApproved, isLoading, progress, qBalance,
          qAllowance, balFetch, allowFetch, txs, ledgerBal, ledgerAllow, userSteps,
          outcome, lastDeposit>>

(***************************************************************************)
(* Pure helpers                                                            *)
(***************************************************************************)
\* viem parseUnits(amount, 18): decimal numeral to base units.
parseUnits(s) == s[1] * Unit

\* formatUnits(v, 18) followed by Number(..).toFixed(6): integer part and the
\* six fraction digits.
DisplayBalance(v) == << v \div Unit, ((v % Unit) * 1000000) \div Unit >>

\* JavaScript truthiness of a bigint | undefined.
Truthy(d) == d # Undefined /\ d[1] # 0

\* data of the useReadContract hooks for the rendered account.
bankBalanceOf(addr, cache) == IF addr = NoAccount THEN Undefined ELSE cache[addr]
bankBalance == bankBalanceOf(address, qBalance)
allowance == bankBalanceOf(address, qAllowance)

\* useEffect [bankBalance]: runs when the data changed, writes when truthy.
BalanceEffect(old, new, bal) ==
    IF new # old /\ Truthy(new) THEN DisplayBalance(new[1]) ELSE bal

\* A faulty variant of ApprovedEffect: a headroom equal to the amount does
\* not count as approved.
ApprovedEffectStrict(allow, amt, approved) ==
    IF allow # Undefined /\ amt # EmptyStr
    THEN allow[1] > parseUnits(amt)
    ELSE IF allow # Undefined THEN allow[1] > 0 ELSE approved

\* useEffect [allowance, amount] -> setIsApproved.
ApprovedEffect(allow, amt, approved) ==
    IF allow # Undefined /\ amt # EmptyStr
    THEN allow[1] >= parseUnits(amt)
    ELSE IF allow # Undefined THEN allow[1] > 0 ELSE approved

\* A faulty variant of ButtonDisabled: the buttons stay enabled while a
\* transaction is pending.
ButtonDisabledAmountOnly == amount = EmptyStr

\* disabled={!amount || isLoading} of both action buttons.
ButtonDisabled == amount = EmptyStr \/ isLoading

(***************************************************************************)
(* Transactions.  A record is one writeContract call: stage "wallet" while *)
(* the mutation is pending, "mining" while waitForTransactionReceipt is    *)
(* pending, "receipt" during the 500 ms pause before the finally block     *)
(* (status is then the status field of the receipt).                       *)
(* req is the amount of the user's request, clo the amount captured by the *)
(* closure of the effect that started the wait.                            *)
(***************************************************************************)
NewTx(op, arg, req, chained) ==
    [op |-> op, arg |-> arg, req |-> req, clo |-> EmptyStr, acct |-> address,
     stage |-> "wallet", status |-> "none", chained |-> chained]

RemoveAt(s, i) == [j \in 1..(Len(s) - 1) |-> IF j < i THEN s[j] ELSE s[j + 1]]

Ui == [isLoading |-> isLoading, progress |-> progress, txs |-> txs]

\* A faulty variant of handleApprove: it approves the amount entered.
handleApproveExact(amt, u) ==
    IF amt = EmptyStr THEN u
    ELSE [isLoading |-> TRUE, progress |-> 10,
          txs |-> Append(u.txs, NewTx("approve", parseUnits(amt), amt, FALSE))]

\* handleApprove, on the ui state u, with the amount amt of its closure.
handleApprove(amt, u) ==
    IF amt = EmptyStr THEN u
    ELSE [isLoading |-> TRUE, progress |-> 10,
          txs |-> Append(u.txs, NewTx("approve", MaxUint256, amt, FALSE))]

\* A faulty variant of NeedsApproval: the sufficiency test is never made.
NeedsApprovalNever(skipApprovalCheck, approved, allow, depositAmount) == FALSE

\* The test of line 128 that sends handleDeposit to handleApprove.
NeedsApproval(skipApprovalCheck, approved, allow, depositAmount) ==
    /\ ~skipApprovalCheck
    /\ \/ ~approved
       \/ (Truthy(allow) /\ allow[1] < depositAmount)

\* A faulty variant of handleDeposit: the deposit starts at progress 75.
handleDepositFrom75(skipApprovalCheck, amt, approved, allow, req, u) ==
    IF amt = EmptyStr THEN u
    ELSE IF NeedsApproval(skipApprovalCheck, approved, allow, parseUnits(amt))
    THEN handleApprove(amt, u)
    ELSE [isLoading |-> TRUE, progress |-> 75,
          txs |-> Append(u.txs, NewTx("deposit", parseUnits(amt), req,
                                      skipApprovalCheck))]

\* handleDeposit(skipApprovalCheck) with amt, approved, allow of its closure;
\* req is the amount of the user's request that led to this call.
handleDeposit(skipApprovalCheck, amt, approved, allow, req, u) ==
    IF amt = EmptyStr THEN u
    ELSE IF NeedsApproval(skipApprovalCheck, approved, allow, parseUnits(amt))
    THEN handleApprove(amt, u)
    ELSE [isLoading |-> TRUE, progress |-> 25,
          txs |-> Append(u.txs, NewTx("deposit", parseUnits(amt), req,
                                      skipApprovalCheck))]

\* A faulty variant of handleWithdraw: it does not raise the pending flag.
handleWithdrawOwnFlag(amt, u) ==
    IF amt = EmptyStr THEN u
    ELSE [isLoading |-> u.isLoading, progress |-> u.progress,
          txs |-> Append(u.txs, NewTx("withdraw", parseUnits(amt), amt, FALSE))]

\* handleWithdraw with the amount amt of its closure.
handleWithdraw(amt, u) ==
    IF amt = EmptyStr THEN u
    ELSE [isLoading |-> TRUE, progress |-> 25,
          txs |-> Append(u.txs, NewTx("withdraw", parseUnits(amt), amt, FALSE))]

\* A faulty variant of waitFinally: the flag is reset on success only.
waitWithoutFinally(i) ==
    [isLoading |-> txs[i].stage # "receipt", progress |-> 0, txs |-> RemoveAt(txs, i)]

\* The finally block of waitForTransaction for the transaction at index i.
waitFinally(i) ==
    [isLoading |-> FALSE, progress |-> 0, txs |-> RemoveAt(txs, i)]

(***************************************************************************)
(* Initial state: the component just mounted, no wallet connected.  On    *)
(* the ledger, account A may already hold a bank balance and an allowance *)
(* of one token; account B is a fresh account.                            *)
(***************************************************************************)
Init ==
    /\ address = NoAccount
    /\ amount = EmptyStr
    /\ balance = EmptyStr
    /\ isApproved = FALSE
    /\ isLoading = FALSE
    /\ progress = 0
    /\ qBalance = [a \in Accounts |-> Undefined]
    /\ qAllowance = [a \in Accounts |-> Undefined]
    /\ balFetch = [a \in Accounts |-> "idle"]
    /\ allowFetch = [a \in Accounts |-> "idle"]
    /\ txs = << >>
    /\ \E b \in {0, Unit} : ledgerBal = [a \in Accounts |-> IF a = "A" THEN b ELSE 0]
    /\ \E h \in {0, Unit} : ledgerAllow = [a \in Accounts |-> IF a = "A" THEN h ELSE 0]
    /\ userSteps = 0
    /\ outcome = << >>
    /\ lastDeposit = << >>

\* One more action of the user, within the bound of the exploration.
UserStep ==
    userSteps < MaxUserSteps /\ userSteps' = userSteps + 1 /\ UNCHANGED outcome

(***************************************************************************)
(* Wallet session: connect, disconnect, account switch                     *)
(***************************************************************************)
\* The render after `address` became new: the queries switch to the key of
\* new and fetch, the effect [isConnected, address] runs, then the effects
\* [bankBalance] and [allowance, amount].
AddressChanged(new) ==
    /\ address' = new
    /\ balFetch' = IF new = NoAccount THEN balFetch
                   ELSE [balFetch EXCEPT ![new] = "getBalance"]
    /\ allowFetch' = IF new = NoAccount THEN allowFetch
                     ELSE [allowFetch EXCEPT ![new] = "fetch"]
    /\ balance' = BalanceEffect(bankBalance, bankBalanceOf(new, qBalance),
                                IF new = NoAccount THEN EmptyStr ELSE balance)
    /\ isApproved' = ApprovedEffect(bankBalanceOf(new, qAllowance), amount, isApproved)
    /\ UNCHANGED <<amount, isLoading, progress, qBalance, qAllowance, txs,
                   ledgerBal, ledgerAllow,
                   lastDeposit>>

Connect(a) ==
    /\ address = NoAccount
    /\ AddressChanged(a)
    /\ UserStep

Disconnect ==
    /\ address # NoAccount
    /\ AddressChanged(NoAccount)
    /\ UserStep

SwitchAccount(a) ==
    /\ address # NoAccount
    /\ address # a
    /\ AddressChanged(a)
    /\ UserStep

(***************************************************************************)
(* User input                                                              *)
(***************************************************************************)
\* onChange of the amount input (rendered only while connected).
SetAmount(v) ==
    /\ address # NoAccount
    /\ v # amount
    /\ amount' = v
    /\ isApproved' = ApprovedEffect(allowance, v, isApproved)
    /\ UserStep
    /\ UNCHANGED <<address, balance, isLoading, progress, qBalance, qAllowance,
                   balFetch, allowFetch, txs, ledgerBal, ledgerAllow,
                   lastDeposit>>

\* A click on the Deposit / Approve Token button: requestDeposit.
ClickDeposit ==
    /\ address # NoAccount
    /\ IF ButtonDisabled
       THEN UNCHANGED vars
       ELSE /\ Len(txs) < MaxInFlight
            /\ UserStep
            /\ LET u == handleDeposit(FALSE, amount, isApproved, allowance, amount, Ui)
               IN /\ isLoading' = u.isLoading
                  /\ progress' = u.progress
                  /\ txs' = u.txs
            /\ UNCHANGED <<address, amount, balance, isApproved, qBalance,
                           qAllowance, balFetch, allowFetch, ledgerBal, ledgerAllow,
                           lastDeposit>>

\* A click on the Withdraw button: requestWithdraw.
ClickWithdraw ==
    /\ address # NoAccount
    /\ IF ButtonDisabled
       THEN UNCHANGED vars
       ELSE /\ Len(txs) < MaxInFlight
            /\ UserStep
            /\ LET u == handleWithdraw(amount, Ui)
               IN /\ isLoading' = u.isLoading
                  /\ progress' = u.progress
                  /\ txs' = u.txs
            /\ UNCHANGED <<address, amount, balance, isApproved, qBalance,
                           qAllowance, balFetch, allowFetch, ledgerBal, ledgerAllow,
                           lastDeposit>>

(***************************************************************************)
(* Answers of the wallet and of the chain to a write                       *)
(***************************************************************************)
\* A uint256 argument the ABI encoder accepts.
Encodable(arg) == 0 <= arg /\ arg <= MaxUint256

\* The mutation succeeds: data = hash, isSuccess = true.  The effect
\* [xSuccess, xHash] of that render calls waitForTransaction(hash), whose
\* first statement is setProgress(50); the continuation closes over the
\* amount of that render.
WalletReturnsHash(i) ==
    /\ i \in 1..Len(txs)
    /\ txs[i].stage = "wallet"
    /\ txs[i].acct # NoAccount
    /\ Encodable(txs[i].arg)
    /\ txs' = [txs EXCEPT ![i].stage = "mining", ![i].clo = amount]
    /\ progress' = 50
    /\ UNCHANGED <<userSteps, outcome>>
    /\ UNCHANGED <<address, amount, balance, isApproved, isLoading, qBalance,
                   qAllowance, balFetch, allowFetch, ledgerBal, ledgerAllow,
                   lastDeposit>>

\* What the component does when writeContract's mutation ends in error: the
\* mutation never throws into the handler's try block, and no effect or
\* handler of the component reads the mutation's error.
onSubmitError(i) ==
    [isLoading |-> isLoading, progress |-> progress, txs |-> RemoveAt(txs, i)]

\* The mutation fails (wallet or node rejects, encoding fails): no hash.
WalletRejects(i) ==
    /\ i \in 1..Len(txs)
    /\ txs[i].stage = "wallet"
    /\ LET u == onSubmitError(i)
       IN /\ isLoading' = u.isLoading
          /\ progress' = u.progress
          /\ txs' = u.txs
    /\ outcome' = <<txs[i].op, "submitFailed">>
    /\ UNCHANGED userSteps
    /\ UNCHANGED <<address, amount, balance, isApproved, qBalance, qAllowance,
                   balFetch, allowFetch, ledgerBal, ledgerAllow,
                   lastDeposit>>

\* The ledger accepts the transaction t.
Mineable(t) ==
    CASE t.op = "approve"  -> TRUE
      [] t.op = "deposit"  -> /\ t.arg <= ledgerAllow[t.acct]
                              /\ ledgerBal[t.acct] + t.arg <= Holdings
      [] t.op = "withdraw" -> t.arg <= ledgerBal[t.acct]

\* The ledger after it executed the transaction t: unchanged when t reverts.
Executed(t) ==
    IF ~Mineable(t) THEN [allow |-> ledgerAllow, bal |-> ledgerBal]
    ELSE [allow |->
            CASE t.op = "approve" -> [ledgerAllow EXCEPT ![t.acct] = t.arg]
              [] t.op = "deposit" /\ ledgerAllow[t.acct] # MaxUint256 ->
                    [ledgerAllow EXCEPT ![t.acct] = @ - t.arg]
              [] OTHER -> ledgerAllow,
          bal |->
            CASE t.op = "deposit"  -> [ledgerBal EXCEPT ![t.acct] = @ + t.arg]
              [] t.op = "withdraw" -> [ledgerBal EXCEPT ![t.acct] = @ - t.arg]
              [] OTHER -> ledgerBal]

\* waitForTransactionReceipt returns the receipt of the included transaction
\* (also of a reverted one); setProgress(100) and the 500 ms pause follow.
\* lastDeposit records what the ledger did, for the round trip of a deposit.
ReceiptArrives(i) ==
    /\ i \in 1..Len(txs)
    /\ txs[i].stage = "mining"
    /\ ledgerAllow' = Executed(txs[i]).allow
    /\ ledgerBal' = Executed(txs[i]).bal
    /\ txs' = [txs EXCEPT ![i].stage = "receipt",
                          ![i].status = IF Mineable(txs[i]) THEN "success"
                                        ELSE "reverted"]
    /\ progress' = 100
    /\ lastDeposit' = IF ledgerBal' = ledgerBal THEN lastDeposit
                      ELSE IF txs[i].op = "deposit"
                           THEN <<txs[i].acct, ledgerBal[txs[i].acct], txs[i].arg>>
                           ELSE << >>
    /\ UNCHANGED <<userSteps, outcome>>
    /\ UNCHANGED <<address, amount, balance, isApproved, isLoading, qBalance,
                   qAllowance, balFetch, allowFetch>>

\* A faulty variant of onWaitFailed: the continuation of an approval runs
\* although its wait failed (as with .finally in place of .then).
onWaitFailedChains(i) ==
    IF txs[i].op = "approve"
    THEN handleDeposit(TRUE, txs[i].clo, isApproved, allowance, txs[i].req,
                       waitFinally(i))
    ELSE waitFinally(i)

\* What the component does when the wait of transaction i throws: the catch
\* of waitForTransaction rethrows, its finally block runs, and the rejected
\* promise skips the .then continuation of the effect.
onWaitFailed(i) == waitFinally(i)

\* waitForTransactionReceipt throws.
WaitFails(i) ==
    /\ i \in 1..Len(txs)
    /\ txs[i].stage = "mining"
    /\ LET u == onWaitFailed(i)
       IN /\ isLoading' = u.isLoading
          /\ progress' = u.progress
          /\ txs' = u.txs
    /\ outcome' = <<txs[i].op, "waitFailed">>
    /\ UNCHANGED userSteps
    /\ UNCHANGED <<address, amount, balance, isApproved, qBalance, qAllowance,
                   balFetch, allowFetch, ledgerBal, ledgerAllow,
                   lastDeposit>>

\* The states of a query in which a read is on its way.
Fetching == {"fetch", "getBalance"}

\* A faulty variant of Refetch: nothing is read again.
RefetchNothing(fetching) == fetching

\* refetch() of a read hook: fetches the query of the account now rendered
\* (a fetch already on its way is shared).
Refetch(fetching) ==
    IF address = NoAccount THEN fetching
    ELSE [fetching EXCEPT ![address] = IF @ \in Fetching THEN @ ELSE "fetch"]

\* The amount the continuation of a confirmed approval deposits: the amount
\* closed over by handleDeposit of the render that started the wait.
ChainedAmount(t) == t.clo

\* .then of the approve effect: refetchAllowance(); handleDeposit(true).
ApproveConfirmed(i) ==
    /\ txs[i].op = "approve"
    /\ allowFetch' = Refetch(allowFetch)
    /\ LET u == handleDeposit(TRUE, ChainedAmount(txs[i]), isApproved, allowance,
                              txs[i].req, waitFinally(i))
       IN /\ isLoading' = u.isLoading
          /\ progress' = u.progress
          /\ txs' = u.txs
    /\ outcome' = <<txs[i].op, "confirmed">>
    /\ UNCHANGED userSteps
    /\ UNCHANGED <<address, amount, balance, isApproved, qBalance, qAllowance,
                   balFetch, ledgerBal, ledgerAllow,
                   lastDeposit>>

\* .then of the deposit and withdraw effects: refetchBalance(); setAmount('').
TransferConfirmed(i) ==
    /\ txs[i].op \in {"deposit", "withdraw"}
    /\ balFetch' = Refetch(balFetch)
    /\ amount' = EmptyStr
    /\ isApproved' = ApprovedEffect(allowance, EmptyStr, isApproved)
    /\ LET u == waitFinally(i)
       IN /\ isLoading' = u.isLoading
          /\ progress' = u.progress
          /\ txs' = u.txs
    /\ outcome' = <<txs[i].op, "confirmed">>
    /\ UNCHANGED userSteps
    /\ UNCHANGED <<address, balance, qBalance, qAllowance, allowFetch,
                   ledgerBal, ledgerAllow,
                   lastDeposit>>

\* The 500 ms timer of waitForTransaction fires: finally, then the .then.
TimerFires(i) ==
    /\ i \in 1..Len(txs)
    /\ txs[i].stage = "receipt"
    /\ \/ ApproveConfirmed(i)
       \/ TransferConfirmed(i)

(***************************************************************************)
(* Answers of the node to a read                                           *)
(***************************************************************************)
\* The status of a query after its read ended.
readStatus(ok) == IF ok THEN "idle" ELSE "error"

\* A faulty variant of readData: a failed read clears the cached value.
readDataClearedOnError(ok, data, value) == IF ok THEN Some(value) ELSE Undefined

\* The data of a query after its read ended: the value read, or on a failed
\* read the data the query had.
readData(ok, data, value) == IF ok THEN Some(value) ELSE data

\* The balances(a) read ends.  The continuation of handleGetBalance (if this
\* read was awaited by one) runs first, with the bankBalance of its closure,
\* then the render with the new data and the effect [bankBalance].
BalanceReadDone(a, ok) ==
    /\ balFetch[a] \in Fetching
    /\ balFetch' = [balFetch EXCEPT ![a] = readStatus(ok)]
    /\ qBalance' = [qBalance EXCEPT ![a] = readData(ok, @, ledgerBal[a])]
    /\ LET stale == qBalance[a]
           afterGet == IF balFetch[a] = "getBalance" /\ Truthy(stale)
                       THEN DisplayBalance(stale[1]) ELSE balance
       IN balance' = BalanceEffect(bankBalance, bankBalanceOf(address, qBalance'),
                                   afterGet)
    /\ UNCHANGED <<userSteps, outcome>>
    /\ UNCHANGED <<address, amount, isApproved, isLoading, progress, qAllowance,
                   allowFetch, txs, ledgerBal, ledgerAllow,
                   lastDeposit>>

\* The allowance(a, bank) read ends; the effect [allowance, amount] follows.
AllowanceReadDone(a, ok) ==
    /\ allowFetch[a] \in Fetching
    /\ allowFetch' = [allowFetch EXCEPT ![a] = readStatus(ok)]
    /\ qAllowance' = [qAllowance EXCEPT ![a] = readData(ok, @, ledgerAllow[a])]
    /\ isApproved' = ApprovedEffect(bankBalanceOf(address, qAllowance'), amount,
                                    isApproved)
    /\ UNCHANGED <<userSteps, outcome>>
    /\ UNCHANGED <<address, amount, balance, isLoading, progress, qBalance,
                   balFetch, txs, ledgerBal, ledgerAllow,
                   lastDeposit>>

(***************************************************************************)
(* Specifications                                                          *)
(***************************************************************************)
WalletAnswers == \E i \in 1..MaxInFlight : WalletReturnsHash(i) \/ WalletRejects(i)
ChainAnswers == \E i \in 1..MaxInFlight : ReceiptArrives(i) \/ WaitFails(i)
TimerAnswers == \E i \in 1..MaxInFlight : TimerFires(i)
ReadAnswers ==
    \E a \in Accounts, ok \in BOOLEAN : BalanceReadDone(a, ok) \/ AllowanceReadDone(a, ok)

Next ==
    \/ \E a \in Accounts : Connect(a)
    \/ Disconnect
    \/ \E a \in Accounts : SwitchAccount(a)
    \/ \E v \in AmountInputs : SetAmount(v)
    \/ ClickDeposit
    \/ ClickWithdraw
    \/ WalletAnswers
    \/ ChainAnswers
    \/ TimerAnswers
    \/ ReadAnswers

Spec == Init /\ [][Next]_vars

\* Every remote call eventually answers and every timer eventually fires.
FairSpec ==
    /\ Spec
    /\ WF_vars(WalletAnswers)
    /\ WF_vars(ChainAnswers)
    /\ WF_vars(TimerAnswers)
    /\ WF_vars(ReadAnswers)

(***************************************************************************)
(* Vocabulary of the properties                                            *)
(***************************************************************************)
DepositLane == {"approve", "deposit"}
WithdrawLane == {"withdraw"}

\* Transactions of a lane that are submitted and neither confirmed nor failed.
InFlight(lane) ==
    {i \in DOMAIN txs : txs[i].op \in lane /\ txs[i].stage \in {"wallet", "mining"}}

Count(s, r) == Cardinality({j \in DOMAIN s : s[j] = r})

\* The writeContract calls of kind op made by the step.
Submitted(op) ==
    {txs'[j] : j \in {k \in DOMAIN txs' :
        /\ txs'[k].op = op
        /\ txs'[k].stage = "wallet"
        /\ Count(txs', txs'[k]) > Count(txs, txs'[k])}}

\* The step ends the transaction at index i: it leaves the sequence.
Ended(i) == i \in DOMAIN txs /\ txs' = RemoveAt(txs, i)

\* The step is the .then continuation of the confirmed transaction at i.
Settled(i) ==
    /\ i \in DOMAIN txs
    /\ txs[i].stage = "receipt"
    /\ Count(txs', txs[i]) < Count(txs, txs[i])

\* The cached headroom is known and below the amount in the input.
HeadroomInsufficient ==
    /\ amount # EmptyStr
    /\ allowance # Undefined
    /\ allowance[1] < parseUnits(amount)

PositiveAmount(a) == a # EmptyStr /\ a[1] > 0

(***************************************************************************)
(* C1: when requestDeposit is invoked with insufficient headroom, no       *)
(* deposit is submitted for that intent before the receipt of the approval *)
(* submitted for it: a step submits a deposit either directly, and then    *)
(* the headroom was not insufficient, or as the continuation of the        *)
(* approval of the same request, whose receipt has arrived.                *)
(***************************************************************************)
C1_DepositAfterApprovalReceipt ==
    [][\A t \in Submitted("deposit") :
          IF t.chained
          THEN \E i \in DOMAIN txs : /\ txs[i].op = "approve"
                                     /\ txs[i].req = t.req
                                     /\ Settled(i)
          ELSE ~HeadroomInsufficient /\ Submitted("approve") = {}]_vars

\* A deposit submitted by the continuation of a confirmed approval.
C1_Witness ==
    \E i \in DOMAIN txs : /\ txs[i].op = "deposit"
                          /\ txs[i].chained
                          /\ outcome = <<"approve", "confirmed">>

(***************************************************************************)
(* C2: in each lane at most one transaction is in flight, and while one is *)
(* in flight the buttons are disabled (isLoading), so that a request made  *)
(* then is rejected and changes nothing.                                   *)
(***************************************************************************)
C2_OneInFlightPerLane ==
    \A lane \in {DepositLane, WithdrawLane} :
        /\ Cardinality(InFlight(lane)) <= 1
        /\ InFlight(lane) # {} => isLoading

\* A request could be typed and clicked while a transaction is in flight.
C2_Witness ==
    /\ address # NoAccount
    /\ PositiveAmount(amount)
    /\ InFlight(WithdrawLane) # {}
    /\ isLoading

\* The step is an accepted click: a handler ran and called writeContract.
ClickAccepted == Len(txs') = Len(txs) + 1 /\ userSteps' = userSteps + 1

(***************************************************************************)
(* C3: when a submission (of a valid amount) fails before a hash is        *)
(* returned, no confirmation wait is created and the pending flag and the  *)
(* progress are cleared at once, so that the next valid request of the     *)
(* lane is accepted.                                                       *)
(***************************************************************************)
C3_SubmissionFailureFreesLane ==
    [][\A i \in DOMAIN txs :
          (txs[i].stage = "wallet" /\ PositiveAmount(txs[i].req) /\ Ended(i)) =>
              /\ isLoading' = FALSE
              /\ progress' = 0
              /\ (address # NoAccount /\ amount # EmptyStr => ~ButtonDisabled')]_vars

(***************************************************************************)
(* C4: if every remote call eventually answers, the pending indicator set  *)
(* by a request (of a valid amount) is eventually cleared: isLoading is    *)
(* false and progress is 0.                                                *)
(***************************************************************************)
C4_IndicatorEventuallyCleared ==
    (isLoading /\ \E i \in DOMAIN txs : PositiveAmount(txs[i].req))
        ~> (~isLoading /\ progress = 0)

(***************************************************************************)
(* C5: the request and the submission of a withdraw leave the displayed    *)
(* and the cached balance alone, and when its confirmation wait fails they *)
(* keep their values, no balance read is started, the amount stays in the  *)
(* input and the pending flag is cleared, so that the withdraw button      *)
(* accepts a request for the same amount.                                  *)
(***************************************************************************)
C5_WithdrawWaitFailureIsolated ==
    [][/\ (Submitted("withdraw") # {} \/ \E i \in DOMAIN txs :
               /\ txs[i].op = "withdraw"
               /\ txs[i].stage = "wallet"
               /\ txs' = [txs EXCEPT ![i].stage = "mining", ![i].clo = amount]) =>
             balance' = balance /\ qBalance' = qBalance /\ balFetch' = balFetch
       /\ \A i \in DOMAIN txs :
          (txs[i].op = "withdraw" /\ txs[i].stage = "mining" /\ Ended(i)) =>
              /\ balance' = balance
              /\ qBalance' = qBalance
              /\ balFetch' = balFetch
              /\ amount' = amount
              /\ isLoading' = FALSE
              /\ (address # NoAccount /\ amount = txs[i].req => ~ButtonDisabled')]_vars

\* After a failed wait of a withdraw, with a balance on display, the same
\* amount has been requested again and submitted.
C5_Witness ==
    /\ outcome = <<"withdraw", "waitFailed">>
    /\ balance # EmptyStr
    /\ \E i \in DOMAIN txs : /\ txs[i].op = "withdraw"
                             /\ txs[i].stage = "wallet"
                             /\ txs[i].req = amount

(***************************************************************************)
(* C6: the confirmation of an approval is followed, without user action,   *)
(* by exactly one deposit submission, made with the check bypassed, for    *)
(* the amount of the requestDeposit call that led to the approval (stated  *)
(* for a valid requested amount and a valid amount in the input).          *)
(***************************************************************************)
C6_ChainedDepositOfRequestedAmount ==
    [][\A i \in DOMAIN txs :
          (/\ txs[i].op = "approve"
           /\ PositiveAmount(txs[i].req)
           /\ PositiveAmount(amount)
           /\ Settled(i)) =>
              /\ Cardinality(Submitted("deposit")) = 1
              /\ \A t \in Submitted("deposit") :
                    t.chained /\ t.arg = parseUnits(txs[i].req)]_vars

(***************************************************************************)
(* C7: the headroom refresh started by the confirmation of the approval    *)
(* has completed, and the cached headroom is the value on the ledger,      *)
(* when the chained deposit (of a valid amount) is submitted.              *)
(***************************************************************************)
C7_HeadroomRefreshedBeforeChainedDeposit ==
    [][\A t \in Submitted("deposit") :
          t.chained /\ PositiveAmount(t.req) /\ t.arg > 0 =>
              /\ t.acct # NoAccount
              /\ allowFetch'[t.acct] = "idle"
              /\ qAllowance'[t.acct] = Some(ledgerAllow'[t.acct])]_vars

C9_InvalidAmountRejected ==
    [][ClickAccepted => PositiveAmount(amount)]_vars

(***************************************************************************)
(* C10: while the headroom of the connected account is unknown, an         *)
(* accepted requestDeposit (of a valid amount) submits an approval, never  *)
(* a deposit directly.                                                     *)
(***************************************************************************)
C10_UnknownHeadroomForcesApproval ==
    [][\A t \in Submitted("deposit") :
          ~t.chained /\ PositiveAmount(t.req) => allowance # Undefined]_vars

(***************************************************************************)
(* C11: with an observed headroom h and a requested amount a > 0, an       *)
(* accepted requestDeposit (made by the button, without the bypass) takes  *)
(* the direct deposit path iff h >= a and the approval path iff h < a.     *)
(***************************************************************************)
C11_DecisionMatchesHeadroom ==
    [][(/\ ClickAccepted
        /\ allowance # Undefined
        /\ PositiveAmount(amount)
        /\ Submitted("withdraw") = {}) =>
            /\ Submitted("deposit") # {} <=> allowance[1] >= parseUnits(amount)
            /\ Submitted("approve") # {} <=> allowance[1] < parseUnits(amount)
            /\ \A t \in Submitted("deposit") : ~t.chained]_vars

\* A deposit submitted directly, with an observed headroom equal to it.
C11_Witness ==
    /\ allowance # Undefined
    /\ \E i \in DOMAIN txs : /\ txs[i].op = "deposit"
                             /\ txs[i].stage = "wallet"
                             /\ ~txs[i].chained
                             /\ txs[i].arg > 0
                             /\ txs[i].acct = address
                             /\ allowance[1] = txs[i].arg

(***************************************************************************)
(* C12: when the confirmation wait of an approval fails, the intent is     *)
(* aborted: that step submits no deposit and no approval and clears the    *)
(* pending flag, it leaves the displayed balance and the cached balance    *)
(* and headroom as they were, and afterwards a deposit or an approval is   *)
(* submitted only by a new request of the user.                            *)
(***************************************************************************)
C12_ApprovalWaitFailureAborts ==
    [][/\ \A i \in DOMAIN txs :
            (/\ txs[i].op = "approve"
             /\ txs[i].stage = "mining"
             /\ \A j \in DOMAIN txs' : txs'[j].op # "approve") =>
                /\ txs' = RemoveAt(txs, i)
                /\ ~isLoading'
                /\ progress' = 0
                /\ balance' = balance
                /\ bankBalance' = bankBalance
                /\ allowance' = allowance
                /\ isApproved' = isApproved
       /\ (outcome = <<"approve", "waitFailed">> /\ txs = << >> /\ txs' # << >>)
            => ClickAccepted]_vars

\* The wait of an approval for a positive deposit has failed.
C12_Witness ==
    /\ outcome = <<"approve", "waitFailed">>
    /\ txs = << >>
    /\ ~isLoading
    /\ PositiveAmount(amount)

\* The read of the query of account a, in flight in fetching, ends in this
\* step; with success when ok.
ReadEnds(fetching, a, ok) ==
    /\ fetching[a] \in Fetching
    /\ fetching'[a] = readStatus(ok)

C14_RefreshReadsBoth ==
    [][\A i \in DOMAIN txs :
          (Settled(i) /\ PositiveAmount(txs[i].req) /\ address # NoAccount) =>
              /\ balFetch'[address] \in Fetching
              /\ allowFetch'[address] \in Fetching]_vars

(***************************************************************************)
(* C15: when a balance read of the connected account completes with        *)
(* success and value v, the displayed balance is v afterwards, for every   *)
(* v >= 0, zero included.                                                  *)
(***************************************************************************)
C15_DisplayShowsValueRead ==
    [][\A a \in Accounts :
          (a = address /\ ReadEnds(balFetch, a, TRUE)) =>
              balance' = DisplayBalance(ledgerBal[a])]_vars

C17_FailedReadKeepsCache ==
    [][\A a \in Accounts :
          /\ ReadEnds(balFetch, a, FALSE) =>
                qBalance' = qBalance /\ balance' = balance
          /\ ReadEnds(allowFetch, a, FALSE) =>
                qAllowance' = qAllowance /\ isApproved' = isApproved]_vars

(***************************************************************************)
(* C18: every approval submitted asks for the largest amount, 2^256 - 1    *)
(* (here 2^UintBits - 1), whatever the amount requested and the headroom;  *)
(* and a step that submits a withdraw submits no approval.                 *)
(***************************************************************************)
C18_ApprovalIsSaturating ==
    [][/\ \A t \in Submitted("approve") : t.arg = 2 ^ UintBits - 1
       /\ Submitted("withdraw") # {} => Submitted("approve") = {}]_vars

\* An approval sent to the ledger for a request of a smaller positive amount.
C18_Witness ==
    \E i \in DOMAIN txs :
        /\ txs[i].op = "approve"
        /\ txs[i].stage = "mining"
        /\ PositiveAmount(txs[i].req)
        /\ parseUnits(txs[i].req) < txs[i].arg
        /\ txs[i].arg = 2 ^ UintBits - 1

(***************************************************************************)
(* C19: progress never decreases while a transaction lives: it is 10       *)
(* (approval) or 25 (deposit, withdraw) when the transaction is requested, *)
(* 50 while its confirmation is awaited and 100 once it is confirmed; it   *)
(* is reset to 0 only by the terminal outcome of a confirmation wait; and  *)
(* in every reachable state progress > 0 exactly when isLoading holds.     *)
(***************************************************************************)
C19_ProgressMonotone ==
    /\ (progress > 0 <=> isLoading)
    /\ [][/\ progress' > 0 <=> isLoading'
          /\ \A j \in DOMAIN txs' :
                progress' = CASE txs'[j].stage = "wallet" ->
                                    IF txs'[j].op = "approve" THEN 10 ELSE 25
                              [] txs'[j].stage = "mining" -> 50
                              [] txs'[j].stage = "receipt" -> 100
          /\ progress' < progress =>
                \E i \in DOMAIN txs : /\ txs[i].stage \in {"mining", "receipt"}
                                      /\ \/ Ended(i)
                                         \/ Settled(i)]_vars

\* A confirmed transaction at full progress, just before its reset.
C19_Witness ==
    /\ isLoading
    /\ progress = 100
    /\ \E i \in DOMAIN txs : txs[i].stage = "receipt" /\ PositiveAmount(txs[i].req)

(***************************************************************************)
(* C20, its first half: in every reachable state the displayed balance is  *)
(* empty while no account is connected.  (The second half, that the        *)
(* balance displayed while X is connected was read for X, presupposes it.) *)
(***************************************************************************)
C20_DisplayEmptyWhileDisconnected ==
    address = NoAccount => balance = EmptyStr

=============================================================================
